---- MODULE Spec2Model ----
(***************************************************************************)
(* Klondike solitaire engine of pysol-solitaire: the pile/card model       *)
(* (models.py, card.py) and the GameController operations (controller.py): *)
(* new_game (build_deck + deal), get_draggable_group_for, _can_stack_on,   *)
(* _find_target_pile, on_card_drag_released, on_stock_clicked, check_win   *)
(* and the debug on_force_win_clicked.                                     *)
(*                                                                         *)
(* A card object is an integer id.  The 52 cards built by build_deck are   *)
(* 0..51 in build order (suit-major, rank-minor); the cards created by the *)
(* n-th force-win are 52*n .. 52*n+51, so that two card objects with the   *)
(* same (suit, rank) are different objects, as in the program.             *)
(* A pile is its position in all_piles (1 = stock, 2 = waste, 3..6 =       *)
(* foundations, 7..13 = tableau); None is 0.                               *)
(***************************************************************************)
EXTENDS Integers, Sequences, FiniteSets, TLC

SUITS == <<"clubs", "diamonds", "hearts", "spades">>
RANKS == <<"ace", "2", "3", "4", "5", "6", "7", "8", "9", "10", "jack", "queen", "king">>

NumFoundations == 4
NumTableau == 7
FullSuit == 13

\* Bounds of the exploration (not program constants).
NumShuffles == 1       \* outcomes of random.shuffle that are explored
MaxForceWins == 1      \* presses of the debug force-win button per game
MaxAfterForceWin == 1  \* operations explored after a press, before the next new game
MaxProbeLen == 3       \* longest tableau pile handed to get_draggable_group_for directly
MaxWasteHeld == 3      \* waste size up to which a gesture run presses the stock
MaxHits == 2           \* most drop regions that hold the pointer at once

None == 0
NoCard == 0 - 1

DeckSize == Len(SUITS) * Len(RANKS)

\* ---------------------------------------------------------------- cards
SuitIndex(c) == (c \div Len(RANKS)) % Len(SUITS)
Suit(c) == SUITS[SuitIndex(c) + 1]
Rank(c) == RANKS[(c % Len(RANKS)) + 1]
\* RANKS.index(rank)
RanksIndexOf(r) == CHOOSE i \in 0..(Len(RANKS) - 1) : RANKS[i + 1] = r
RanksIndex(c) == c % Len(RANKS)
\* the (suit, rank) identity of a card object, as an index into the build order
Identity(c) == c % DeckSize
\* CardItem.color
Color(c) == IF Suit(c) \in {"hearts", "diamonds"} THEN "red" ELSE "black"

\* ---------------------------------------------------------------- piles
\* setup_piles: all_piles = [stock, waste] + foundations + tableau
StockPile == 1
WastePile == 2
Foundations == 3..(2 + NumFoundations)
Tableau == (3 + NumFoundations)..(2 + NumFoundations + NumTableau)
NumPiles == 2 + NumFoundations + NumTableau
FoundationAt(i) == 3 + i
TableauAt(i) == 3 + NumFoundations + i
Kind(p) ==
    IF p = StockPile THEN "stock"
    ELSE IF p = WastePile THEN "waste"
    ELSE IF p \in Foundations THEN "foundation"
    ELSE "tableau"

Range(s) == {s[i] : i \in DOMAIN s}
\* reversed() left out: the sequence as it is
Reverse_Identity(s) == s

Reverse(s) == [i \in 1..Len(s) |-> s[Len(s) + 1 - i]]
Min(a, b) == IF a < b THEN a ELSE b

VARIABLES
    svg_files,             \* identities whose SVG file exists (the environment)
    initial_game_started,  \* SolitaireWindow._initial_game_started
    piles,                 \* all_piles: the card list of each pile, <<>> before setup_piles
    face_up,               \* CardItem._face_up of every card object of the scene
    current_pile,          \* CardItem.current_pile of every card object of the scene
    won,                   \* GameController.won
    win_text_item,         \* GameController._win_text_item is not None
    celebrations,          \* calls of show_celebration since the last new_game
    force_wins,            \* presses of the force-win button in this game
    debug_ops,             \* operations since the first press in this game
    dragging,              \* the card whose CardItem._dragging is true, or NoCard
    drag_group,            \* CardItem._drag_group of that card
    last                   \* the last operation and its outcome (observation only)

vars == <<svg_files, initial_game_started, piles, face_up, current_pile, won,
          win_text_item, celebrations, force_wins, debug_ops, dragging, drag_group, last>>

Cards == DOMAIN current_pile

\* ---------------------------------------------------------------- Pile (models.py)
\* Pile.top_card
top_card(ps, p) == IF ps[p] = <<>> THEN NoCard ELSE ps[p][Len(ps[p])]

\* list.index
IndexOf(s, x) == CHOOSE i \in 1..Len(s) : s[i] = x /\ \A j \in 1..(i - 1) : s[j] # x

\* add_cards with the group pushed card by card from its top: the order is reversed
add_cards_Reversed(ps, cp, p, cards) ==
    [piles |-> [ps EXCEPT ![p] = ps[p] \o Reverse(cards)],
     current_pile |-> [c \in DOMAIN cp |-> IF c \in Range(cards) THEN p ELSE cp[c]]]

\* Pile.add_cards: append in order, each card's current_pile becomes the pile
add_cards(ps, cp, p, cards) ==
    [piles |-> [ps EXCEPT ![p] = ps[p] \o cards],
     current_pile |-> [c \in DOMAIN cp |-> IF c \in Range(cards) THEN p ELSE cp[c]]]

\* remove_cards_from slicing one place too high: card itself stays in the pile
remove_cards_from_AboveOnly(ps, cp, p, card) ==
    IF card \notin Range(ps[p])
    THEN [piles |-> ps, current_pile |-> cp, group |-> <<>>]
    ELSE LET idx == IndexOf(ps[p], card) + 1
             group == SubSeq(ps[p], idx, Len(ps[p]))
         IN [piles |-> [ps EXCEPT ![p] = SubSeq(ps[p], 1, idx - 1)],
             current_pile |-> [c \in DOMAIN cp |->
                                 IF c \in Range(group) THEN None ELSE cp[c]],
             group |-> group]

\* Pile.remove_cards_from: the suffix from card is removed and detached
remove_cards_from(ps, cp, p, card) ==
    IF card \notin Range(ps[p])
    THEN [piles |-> ps, current_pile |-> cp, group |-> <<>>]
    ELSE LET idx == IndexOf(ps[p], card)
             group == SubSeq(ps[p], idx, Len(ps[p]))
         IN [piles |-> [ps EXCEPT ![p] = SubSeq(ps[p], 1, idx - 1)],
             current_pile |-> [c \in DOMAIN cp |->
                                 IF c \in Range(group) THEN None ELSE cp[c]],
             group |-> group]

\* ---------------------------------------------------------------- deck and deal
\* One outcome of random.shuffle is an order of the 52 identities; the deck is
\* put in that order.  BaseOrder is a deal with few legal moves:
\*   tableau 0..6 (bottom to top): 5H | 4C 2H | 4S 5D JD | 6C AS AD 7D |
\*   9H KC 2C AC 6S | AH QD QH KD KH JH | 10C 10S 8C 8S 7H QC 9D, and the stock
\*   is drawn KS QS JS 3C 5C 7C 9C JC 2S 3S 5S 7S 9S 2D 3D 4D 6D 8D 10D 3H 4H 6H 8H 10H.
\* The other outcomes exchange hearts and diamonds (odd k) and rotate the three
\* bottom cards of the last tableau column (by k \div 2).
BaseOrder ==
    << 30, 3, 27, 42, 17, 23, 5, 39, 13, 19, 34, 12, 1, 0, 44, 26, 24, 37, 25,
       38, 36, 9, 48, 7, 46, 32, 11, 21, 35, 33, 31, 29, 28, 22, 20, 18, 16, 15,
       14, 47, 45, 43, 41, 40, 10, 8, 6, 4, 2, 49, 50, 51 >>

SwapRed(c) ==
    IF Suit(c) = "diamonds" THEN c + Len(RANKS)
    ELSE IF Suit(c) = "hearts" THEN c - Len(RANKS)
    ELSE c

RotPos(i, k) ==
    IF i >= 22 /\ i < 25 THEN 22 + ((i - 22 + (k \div 2)) % 3) ELSE i

Order(k) ==
    [i \in 1..DeckSize |->
        IF k % 2 = 1 THEN SwapRed(BaseOrder[RotPos(i, k)]) ELSE BaseOrder[RotPos(i, k)]]

\* random.shuffle(self.deck), outcome k
Shuffle(deck, k) == SelectSeq(Order(k), LAMBDA c : c \in Range(deck))

\* the environments explored: every card's SVG file is found, or none is (the
\* program was started outside the directory that holds SVG-cards-1.3)
AssetSets == {0..(DeckSize - 1), {}}

\* build_deck: one CardItem per (suit, rank) whose SVG file exists, then shuffle
build_deck(files, k) ==
    Shuffle(SelectSeq([i \in 1..DeckSize |-> i - 1], LAMBDA c : c \in files), k)

\* deal: index in the deck of the first card of tableau column col (0-based)
ColStart(col) == (col * (col + 1)) \div 2
DealtToTableau == ColStart(NumTableau)

\* deal: the piles after the deal of deck
deal_piles(deck) ==
    [p \in 1..NumPiles |->
        IF p \in Tableau
        THEN LET col == p - TableauAt(0)
             IN SubSeq(deck, ColStart(col) + 1, Min(ColStart(col) + col + 1, Len(deck)))
        ELSE IF p = StockPile
        THEN SubSeq(deck, DealtToTableau + 1, Len(deck))
        ELSE <<>>]

\* deal: card.set_face_up(row == col) for tableau cards; stock cards stay face-down
deal_face_up(deck) ==
    [c \in Range(deck) |->
        \E col \in 0..(NumTableau - 1) :
            /\ ColStart(col) + col + 1 <= Len(deck)
            /\ deck[ColStart(col) + col + 1] = c]

deal_current_pile(deck) ==
    LET ps == deal_piles(deck)
    IN [c \in Range(deck) |-> CHOOSE p \in 1..NumPiles : c \in Range(ps[p])]

\* ---------------------------------------------------------------- rules
RECURSIVE GroupLoop_Prefix(_, _, _)
\* the tableau loop with break in place of return []: the run so far is kept
GroupLoop_Prefix(pile, i, group) ==
    IF i > Len(pile) THEN group
    ELSE LET top == group[Len(group)]
             bottom == pile[i]
         IN IF Color(bottom) = Color(top) THEN group
            ELSE IF RanksIndex(bottom) # RanksIndex(top) - 1 THEN group
            ELSE GroupLoop_Prefix(pile, i + 1, Append(group, bottom))

RECURSIVE GroupLoop(_, _, _)
\* get_draggable_group_for, the tableau loop: i is the next index of the pile
GroupLoop(pile, i, group) ==
    IF i > Len(pile) THEN group
    ELSE LET top == group[Len(group)]
             bottom == pile[i]
         IN IF Color(bottom) = Color(top) THEN <<>>
            ELSE IF RanksIndex(bottom) # RanksIndex(top) - 1 THEN <<>>
            ELSE GroupLoop(pile, i + 1, Append(group, bottom))

\* get_draggable_group_for with the waste and foundation test on the face in
\* place of the top card
draggable_group_AnyFaceUp(ps, fu, cp, card) ==
    LET pile == cp[card]
    IN IF pile = None THEN <<>>
       ELSE IF Kind(pile) = "waste"
       THEN IF fu[card] THEN <<card>> ELSE <<>>
       ELSE IF Kind(pile) = "tableau"
       THEN IF ~fu[card] THEN <<>>
            ELSE GroupLoop(ps[pile], IndexOf(ps[pile], card) + 1, <<card>>)
       ELSE IF Kind(pile) = "foundation"
       THEN IF fu[card] THEN <<card>> ELSE <<>>
       ELSE <<>>

\* get_draggable_group_for(card) on piles ps
draggable_group(ps, fu, cp, card) ==
    LET pile == cp[card]
    IN IF pile = None THEN <<>>
       ELSE IF Kind(pile) = "waste"
       THEN IF card = top_card(ps, pile) THEN <<card>> ELSE <<>>
       ELSE IF Kind(pile) = "tableau"
       THEN IF ~fu[card] THEN <<>>
            ELSE GroupLoop(ps[pile], IndexOf(ps[pile], card) + 1, <<card>>)
       ELSE IF Kind(pile) = "foundation"
       THEN IF card = top_card(ps, pile) THEN <<card>> ELSE <<>>
       ELSE <<>>

get_draggable_group_for(card) == draggable_group(piles, face_up, current_pile, card)

\* _can_stack_on without the colour test on a non-empty tableau pile
can_stack_on_NoColour(ps, bottom_card, top_pile) ==
    IF Kind(top_pile) = "tableau"
    THEN IF ps[top_pile] = <<>>
         THEN Rank(bottom_card) = "king"
         ELSE LET top == top_card(ps, top_pile)
              IN RanksIndex(bottom_card) = RanksIndex(top) - 1
    ELSE IF Kind(top_pile) = "foundation"
    THEN IF ps[top_pile] = <<>>
         THEN Rank(bottom_card) = "ace"
         ELSE LET top == top_card(ps, top_pile)
              IN /\ Suit(bottom_card) = Suit(top)
                 /\ RanksIndex(bottom_card) = RanksIndex(top) + 1
    ELSE FALSE

\* _can_stack_on comparing colours in place of suits on a non-empty foundation
can_stack_on_SameColour(ps, bottom_card, top_pile) ==
    IF Kind(top_pile) = "tableau"
    THEN IF ps[top_pile] = <<>>
         THEN Rank(bottom_card) = "king"
         ELSE LET top == top_card(ps, top_pile)
              IN /\ Color(bottom_card) # Color(top)
                 /\ RanksIndex(bottom_card) = RanksIndex(top) - 1
    ELSE IF Kind(top_pile) = "foundation"
    THEN IF ps[top_pile] = <<>>
         THEN Rank(bottom_card) = "ace"
         ELSE LET top == top_card(ps, top_pile)
              IN /\ Color(bottom_card) = Color(top)
                 /\ RanksIndex(bottom_card) = RanksIndex(top) + 1
    ELSE FALSE

\* _can_stack_on with an empty foundation taking any card
can_stack_on_NoAceCheck(ps, bottom_card, top_pile) ==
    IF Kind(top_pile) = "tableau"
    THEN IF ps[top_pile] = <<>>
         THEN Rank(bottom_card) = "king"
         ELSE LET top == top_card(ps, top_pile)
              IN /\ Color(bottom_card) # Color(top)
                 /\ RanksIndex(bottom_card) = RanksIndex(top) - 1
    ELSE IF Kind(top_pile) = "foundation"
    THEN IF ps[top_pile] = <<>>
         THEN TRUE
         ELSE LET top == top_card(ps, top_pile)
              IN /\ Suit(bottom_card) = Suit(top)
                 /\ RanksIndex(bottom_card) = RanksIndex(top) + 1
    ELSE FALSE

\* _can_stack_on without the rank test of the tableau rule
can_stack_on_NoRank(ps, bottom_card, top_pile) ==
    IF Kind(top_pile) = "tableau"
    THEN IF ps[top_pile] = <<>>
         THEN Rank(bottom_card) = "king"
         ELSE LET top == top_card(ps, top_pile)
              IN /\ Color(bottom_card) # Color(top)
    ELSE IF Kind(top_pile) = "foundation"
    THEN IF ps[top_pile] = <<>>
         THEN Rank(bottom_card) = "ace"
         ELSE LET top == top_card(ps, top_pile)
              IN /\ Suit(bottom_card) = Suit(top)
                 /\ RanksIndex(bottom_card) = RanksIndex(top) + 1
    ELSE FALSE

\* _can_stack_on whose tableau rule takes a rank one above as well as one below
can_stack_on_EitherWay(ps, bottom_card, top_pile) ==
    IF Kind(top_pile) = "tableau"
    THEN IF ps[top_pile] = <<>>
         THEN Rank(bottom_card) = "king"
         ELSE LET top == top_card(ps, top_pile)
              IN /\ Color(bottom_card) # Color(top)
                 /\ \/ RanksIndex(bottom_card) = RanksIndex(top) - 1
                    \/ RanksIndex(bottom_card) = RanksIndex(top) + 1
    ELSE IF Kind(top_pile) = "foundation"
    THEN IF ps[top_pile] = <<>>
         THEN Rank(bottom_card) = "ace"
         ELSE LET top == top_card(ps, top_pile)
              IN /\ Suit(bottom_card) = Suit(top)
                 /\ RanksIndex(bottom_card) = RanksIndex(top) + 1
    ELSE FALSE

\* _can_stack_on(bottom_card, top_pile) on piles ps
can_stack_on(ps, bottom_card, top_pile) ==
    IF Kind(top_pile) = "tableau"
    THEN IF ps[top_pile] = <<>>
         THEN Rank(bottom_card) = "king"
         ELSE LET top == top_card(ps, top_pile)
              IN /\ Color(bottom_card) # Color(top)
                 /\ RanksIndex(bottom_card) = RanksIndex(top) - 1
    ELSE IF Kind(top_pile) = "foundation"
    THEN IF ps[top_pile] = <<>>
         THEN Rank(bottom_card) = "ace"
         ELSE LET top == top_card(ps, top_pile)
              IN /\ Suit(bottom_card) = Suit(top)
                 /\ RanksIndex(bottom_card) = RanksIndex(top) + 1
    ELSE FALSE

_can_stack_on(bottom_card, top_pile) == can_stack_on(piles, bottom_card, top_pile)

\* The pointer position is the set of piles whose drop region contains it.
HitSets == {{}} \cup {{p} : p \in 1..NumPiles}

\* _find_target_pile without the skip of the stock
_find_target_pile_NoSkip(hits) ==
    LET candidates == SelectSeq([p \in 1..Len(piles) |-> p], LAMBDA p : p \in hits)
        tableaus == SelectSeq(candidates, LAMBDA p : Kind(p) = "tableau")
    IN IF candidates = <<>> THEN None
       ELSE IF tableaus # <<>> THEN tableaus[1]
       ELSE candidates[1]

\* _find_target_pile(pt, prefer_tableau=False): the first candidate
_find_target_pile_FirstMatch(hits) ==
    LET candidates == SelectSeq([p \in 1..Len(piles) |-> p],
                                LAMBDA p : Kind(p) # "stock" /\ p \in hits)
    IN IF candidates = <<>> THEN None ELSE candidates[1]

\* _find_target_pile(pt, prefer_tableau=True)
_find_target_pile(hits) ==
    LET candidates == SelectSeq([p \in 1..Len(piles) |-> p],
                                LAMBDA p : Kind(p) # "stock" /\ p \in hits)
        tableaus == SelectSeq(candidates, LAMBDA p : Kind(p) = "tableau")
    IN IF candidates = <<>> THEN None
       ELSE IF tableaus # <<>> THEN tableaus[1]
       ELSE candidates[1]

\* check_win that assigns won from the foundations at every call
check_win_Recomputed(ps, w, wt, n) ==
    LET full == \A f \in Foundations : Len(ps[f]) = FullSuit
    IN [won |-> full,
        win_text_item |-> wt \/ (full /\ ~w),
        celebrations |-> IF full /\ ~w THEN n + 1 ELSE n,
        events |-> IF full /\ ~w THEN <<"winAchieved">> ELSE <<>>]

\* check_win with >= 13 in place of == 13
check_win_AtLeast(ps, w, wt, n) ==
    IF w THEN [won |-> w, win_text_item |-> wt, celebrations |-> n, events |-> <<>>]
    ELSE IF \A f \in Foundations : Len(ps[f]) >= FullSuit
    THEN [won |-> TRUE, win_text_item |-> TRUE, celebrations |-> n + 1,
          events |-> <<"winAchieved">>]
    ELSE [won |-> w, win_text_item |-> wt, celebrations |-> n, events |-> <<>>]

\* check_win without the early return on won
check_win_NoLatch(ps, w, wt, n) ==
    IF \A f \in Foundations : Len(ps[f]) = FullSuit
    THEN [won |-> TRUE, win_text_item |-> TRUE, celebrations |-> n + 1,
          events |-> <<"winAchieved">>]
    ELSE [won |-> w, win_text_item |-> wt, celebrations |-> n, events |-> <<>>]

\* check_win on foundations of ps: the new won, _win_text_item and celebration count
check_win(ps, w, wt, n) ==
    IF w THEN [won |-> w, win_text_item |-> wt, celebrations |-> n, events |-> <<>>]
    ELSE IF \A f \in Foundations : Len(ps[f]) = FullSuit
    THEN [won |-> TRUE, win_text_item |-> TRUE, celebrations |-> n + 1,
          events |-> <<"winAchieved">>]
    ELSE [won |-> w, win_text_item |-> wt, celebrations |-> n, events |-> <<>>]

Last(op, outcome, card, src, dst, n, events) ==
    [op |-> op, outcome |-> outcome, card |-> card, src |-> src, dst |-> dst,
     n |-> n, events |-> events]

\* an early return: nothing but the observation changes
Returns(l) ==
    [piles |-> piles, face_up |-> face_up, current_pile |-> current_pile, won |-> won,
     win_text_item |-> win_text_item, celebrations |-> celebrations, last |-> l]

\* _animate_revert: the cards go back to their start positions; positions are
\* not part of the engine state, so piles, faces and membership stay as they are
_animate_revert(l) ==
    [piles |-> piles, face_up |-> face_up, current_pile |-> current_pile, won |-> won,
     win_text_item |-> win_text_item, celebrations |-> celebrations, last |-> l]

\* the auto-flip reading cards[0] in place of top_card(): the bottom card is flipped
auto_flip_Bottom(ps, fu, src_pile) ==
    IF /\ Kind(src_pile) = "tableau"
       /\ ps[src_pile] # <<>>
       /\ ~fu[ps[src_pile][1]]
    THEN [fu EXCEPT ![ps[src_pile][1]] = TRUE]
    ELSE fu

\* on_card_drag_released without the auto-flip
auto_flip_Never(ps, fu, src_pile) == fu

\* on_card_drag_released, the auto-flip of the source's new top card
\* (controller.py:395-396): the face states after it
auto_flip(ps, fu, src_pile) ==
    IF /\ Kind(src_pile) = "tableau"
       /\ top_card(ps, src_pile) # NoCard
       /\ ~fu[top_card(ps, src_pile)]
    THEN [fu EXCEPT ![top_card(ps, src_pile)] = TRUE]
    ELSE fu

\* ---------------------------------------------------------------- operations
\* on_card_drag_released that detaches the group before it validates the drop
\* and does not put it back on a revert
on_card_drag_released_DetachFirst(card, hits) ==
    LET src_pile == current_pile[card]
        group == get_draggable_group_for(card)
        target == _find_target_pile(hits)
        can_drop == target # None /\ _can_stack_on(group[1], target)
        removed == remove_cards_from(piles, current_pile, src_pile, card)
    IN IF src_pile = None
       THEN Returns(Last("drag_released", "ignored", NoCard, None, None, 0, <<>>))
       ELSE IF group = <<>>
       THEN _animate_revert(Last("drag_released", "reverted_empty_group", NoCard, None,
                                 None, 0, <<>>))
       ELSE IF ~can_drop
       THEN [_animate_revert(Last("drag_released",
                                  IF target = None THEN "reverted_no_target"
                                  ELSE "reverted_cannot_stack",
                                  NoCard, None, None, 0, <<>>))
               EXCEPT !.piles = removed.piles, !.current_pile = removed.current_pile]
       ELSE LET added == add_cards(removed.piles, removed.current_pile, target,
                                   removed.group)
                checked == check_win(added.piles, won, win_text_item, celebrations)
                flipped == auto_flip(added.piles, face_up, src_pile)
                flip == flipped # face_up
            IN [piles |-> added.piles,
                face_up |-> flipped,
                current_pile |-> added.current_pile,
                won |-> checked.won,
                win_text_item |-> checked.win_text_item,
                celebrations |-> checked.celebrations,
                last |-> Last("drag_released", "accepted", card, src_pile, target,
                              Len(removed.group),
                              <<"cardsMoved">> \o checked.events \o
                              (IF flip THEN <<"tableauCardFlipped">> ELSE <<>>))]

\* on_card_drag_released returning on an empty group without _animate_revert
on_card_drag_released_SilentEmpty(card, hits) ==
    LET src_pile == current_pile[card]
        group == get_draggable_group_for(card)
        target == _find_target_pile(hits)
        can_drop == target # None /\ _can_stack_on(group[1], target)
    IN IF src_pile = None
       THEN Returns(Last("drag_released", "ignored", NoCard, None, None, 0, <<>>))
       ELSE IF group = <<>>
       THEN Returns(Last("drag_released", "ignored", NoCard, None, None, 0, <<>>))
       ELSE IF ~can_drop
       THEN _animate_revert(Last("drag_released",
                                 IF target = None THEN "reverted_no_target"
                                 ELSE "reverted_cannot_stack",
                                 NoCard, None, None, 0, <<>>))
       ELSE LET removed == remove_cards_from(piles, current_pile, src_pile, card)
                added == add_cards(removed.piles, removed.current_pile, target,
                                   removed.group)
                checked == check_win(added.piles, won, win_text_item, celebrations)
                flipped == auto_flip(added.piles, face_up, src_pile)
                flip == flipped # face_up
            IN [piles |-> added.piles,
                face_up |-> flipped,
                current_pile |-> added.current_pile,
                won |-> checked.won,
                win_text_item |-> checked.win_text_item,
                celebrations |-> checked.celebrations,
                last |-> Last("drag_released", "accepted", card, src_pile, target,
                              Len(removed.group),
                              <<"cardsMoved">> \o checked.events \o
                              (IF flip THEN <<"tableauCardFlipped">> ELSE <<>>))
                         @@ [calls |-> <<"remove_cards_from", "add_cards", "check_win">>
                                         \o (IF flip THEN <<"set_face_up">> ELSE <<>>)]]

\* on_card_drag_released(card, scene_pos, start_positions): the state it leaves
on_card_drag_released(card, hits) ==
    LET src_pile == current_pile[card]
        group == get_draggable_group_for(card)
        target == _find_target_pile(hits)
        can_drop == target # None /\ _can_stack_on(group[1], target)
    IN IF src_pile = None
       THEN Returns(Last("drag_released", "ignored", NoCard, None, None, 0, <<>>))
       ELSE IF group = <<>>
       THEN _animate_revert(Last("drag_released", "reverted_empty_group", NoCard, None,
                                 None, 0, <<>>))
       ELSE IF ~can_drop
       THEN _animate_revert(Last("drag_released",
                                 IF target = None THEN "reverted_no_target"
                                 ELSE "reverted_cannot_stack",
                                 NoCard, None, None, 0, <<>>))
       ELSE LET removed == remove_cards_from(piles, current_pile, src_pile, card)
                added == add_cards(removed.piles, removed.current_pile, target,
                                   removed.group)
                checked == check_win(added.piles, won, win_text_item, celebrations)
                flipped == auto_flip(added.piles, face_up, src_pile)
                flip == flipped # face_up
            IN [piles |-> added.piles,
                face_up |-> flipped,
                current_pile |-> added.current_pile,
                won |-> checked.won,
                win_text_item |-> checked.win_text_item,
                celebrations |-> checked.celebrations,
                last |-> Last("drag_released", "accepted", card, src_pile, target,
                              Len(removed.group),
                              <<"cardsMoved">> \o checked.events \o
                              (IF flip THEN <<"tableauCardFlipped">> ELSE <<>>))
                         @@ [calls |-> <<"remove_cards_from", "add_cards", "check_win">>
                                         \o (IF flip THEN <<"set_face_up">> ELSE <<>>)]]

\* on_stock_clicked without set_face_up(True) on the drawn card
on_stock_clicked_NoFlip ==
    IF piles = <<>> \/ piles[StockPile] = <<>>
    THEN IF piles # <<>> /\ piles[WastePile] # <<>>
         THEN LET moving == Reverse(piles[WastePile])
                  cleared == [piles EXCEPT ![WastePile] = <<>>]
                  turned == [c \in DOMAIN face_up |->
                                IF c \in Range(moving) THEN FALSE ELSE face_up[c]]
                  added == add_cards(cleared, current_pile, StockPile, moving)
                  checked == check_win(added.piles, won, win_text_item, celebrations)
              IN [piles |-> added.piles, face_up |-> turned,
                  current_pile |-> added.current_pile,
                  won |-> checked.won, win_text_item |-> checked.win_text_item,
                  celebrations |-> checked.celebrations,
                  last |-> Last("stock_clicked", "recycle", NoCard, WastePile, StockPile,
                                Len(moving), checked.events)]
         ELSE Returns(Last("stock_clicked", "noop", NoCard, None, None, 0, <<>>))
    ELSE LET card == piles[StockPile][Len(piles[StockPile])]
             popped == [piles EXCEPT
                          ![StockPile] = SubSeq(piles[StockPile], 1, Len(piles[StockPile]) - 1)]
             added == add_cards(popped, current_pile, WastePile, <<card>>)
             checked == check_win(added.piles, won, win_text_item, celebrations)
         IN [piles |-> added.piles,
             face_up |-> face_up,
             current_pile |-> added.current_pile,
             won |-> checked.won, win_text_item |-> checked.win_text_item,
             celebrations |-> checked.celebrations,
             last |-> Last("stock_clicked", "draw", card, StockPile, WastePile, 1,
                           checked.events)]

\* on_stock_clicked that recycles without testing that the waste holds a card
on_stock_clicked_RecycleEmpty ==
    IF piles = <<>> \/ piles[StockPile] = <<>>
    THEN IF piles # <<>>
         THEN LET moving == Reverse(piles[WastePile])
                  cleared == [piles EXCEPT ![WastePile] = <<>>]
                  turned == [c \in DOMAIN face_up |->
                                IF c \in Range(moving) THEN FALSE ELSE face_up[c]]
                  added == add_cards(cleared, current_pile, StockPile, moving)
                  checked == check_win(added.piles, won, win_text_item, celebrations)
              IN [piles |-> added.piles, face_up |-> turned,
                  current_pile |-> added.current_pile,
                  won |-> checked.won, win_text_item |-> checked.win_text_item,
                  celebrations |-> checked.celebrations,
                  last |-> Last("stock_clicked", "recycle", NoCard, WastePile, StockPile,
                                Len(moving), checked.events)]
         ELSE Returns(Last("stock_clicked", "noop", NoCard, None, None, 0, <<>>))
    ELSE LET card == piles[StockPile][Len(piles[StockPile])]
             popped == [piles EXCEPT
                          ![StockPile] = SubSeq(piles[StockPile], 1, Len(piles[StockPile]) - 1)]
             added == add_cards(popped, current_pile, WastePile, <<card>>)
             checked == check_win(added.piles, won, win_text_item, celebrations)
         IN [piles |-> added.piles,
             face_up |-> [face_up EXCEPT ![card] = TRUE],
             current_pile |-> added.current_pile,
             won |-> checked.won, win_text_item |-> checked.win_text_item,
             celebrations |-> checked.celebrations,
             last |-> Last("stock_clicked", "draw", card, StockPile, WastePile, 1,
                           checked.events)]

\* on_stock_clicked drawing with pop(0): the bottom card of the stock
on_stock_clicked_PopFirst ==
    IF piles = <<>> \/ piles[StockPile] = <<>>
    THEN IF piles # <<>> /\ piles[WastePile] # <<>>
         THEN LET moving == Reverse(piles[WastePile])
                  cleared == [piles EXCEPT ![WastePile] = <<>>]
                  turned == [c \in DOMAIN face_up |->
                                IF c \in Range(moving) THEN FALSE ELSE face_up[c]]
                  added == add_cards(cleared, current_pile, StockPile, moving)
                  checked == check_win(added.piles, won, win_text_item, celebrations)
              IN [piles |-> added.piles, face_up |-> turned,
                  current_pile |-> added.current_pile,
                  won |-> checked.won, win_text_item |-> checked.win_text_item,
                  celebrations |-> checked.celebrations,
                  last |-> Last("stock_clicked", "recycle", NoCard, WastePile, StockPile,
                                Len(moving), checked.events)]
         ELSE Returns(Last("stock_clicked", "noop", NoCard, None, None, 0, <<>>))
    ELSE LET card == piles[StockPile][1]
             popped == [piles EXCEPT
                          ![StockPile] = SubSeq(piles[StockPile], 2, Len(piles[StockPile]))]
             added == add_cards(popped, current_pile, WastePile, <<card>>)
             checked == check_win(added.piles, won, win_text_item, celebrations)
         IN [piles |-> added.piles,
             face_up |-> [face_up EXCEPT ![card] = TRUE],
             current_pile |-> added.current_pile,
             won |-> checked.won, win_text_item |-> checked.win_text_item,
             celebrations |-> checked.celebrations,
             last |-> Last("stock_clicked", "draw", card, StockPile, WastePile, 1,
                           checked.events)]

\* on_stock_clicked(): the state it leaves
on_stock_clicked ==
    IF piles = <<>> \/ piles[StockPile] = <<>>
    THEN IF piles # <<>> /\ piles[WastePile] # <<>>
         THEN LET moving == Reverse(piles[WastePile])
                  cleared == [piles EXCEPT ![WastePile] = <<>>]
                  turned == [c \in DOMAIN face_up |->
                                IF c \in Range(moving) THEN FALSE ELSE face_up[c]]
                  added == add_cards(cleared, current_pile, StockPile, moving)
                  checked == check_win(added.piles, won, win_text_item, celebrations)
              IN [piles |-> added.piles, face_up |-> turned,
                  current_pile |-> added.current_pile,
                  won |-> checked.won, win_text_item |-> checked.win_text_item,
                  celebrations |-> checked.celebrations,
                  last |-> Last("stock_clicked", "recycle", NoCard, WastePile, StockPile,
                                Len(moving), checked.events)]
         ELSE Returns(Last("stock_clicked", "noop", NoCard, None, None, 0, <<>>))
    ELSE LET card == piles[StockPile][Len(piles[StockPile])]
             popped == [piles EXCEPT
                          ![StockPile] = SubSeq(piles[StockPile], 1, Len(piles[StockPile]) - 1)]
             added == add_cards(popped, current_pile, WastePile, <<card>>)
             checked == check_win(added.piles, won, win_text_item, celebrations)
         IN [piles |-> added.piles,
             face_up |-> [face_up EXCEPT ![card] = TRUE],
             current_pile |-> added.current_pile,
             won |-> checked.won, win_text_item |-> checked.win_text_item,
             celebrations |-> checked.celebrations,
             last |-> Last("stock_clicked", "draw", card, StockPile, WastePile, 1,
                           checked.events)]

\* The handler returns before it reads the pointer when the group is empty
\* (controller.py:375-378): one pointer position then stands for all.
PointersRead(card) ==
    IF get_draggable_group_for(card) = <<>> THEN {{}} ELSE HitSets

RECURSIVE Flatten(_, _)
\* the cards of piles 1..p in pile order
Flatten(ps, p) == IF p = 0 THEN <<>> ELSE Flatten(ps, p - 1) \o ps[p]

\* new_game whose build_deck keeps the cards in the order the earlier game left
\* them in: the shuffle permutes that order, not the SUITS x RANKS order
new_game_KeepsOrder(k) ==
    LET built == build_deck(svg_files, k)
        before == Flatten(piles, Len(piles))
        deck == IF Len(before) # Len(built) THEN built
                ELSE [i \in 1..Len(built) |-> before[(built[i] % Len(built)) + 1]]
    IN [piles |-> deal_piles(deck),
        face_up |-> deal_face_up(deck),
        current_pile |-> deal_current_pile(deck),
        won |-> FALSE,
        win_text_item |-> FALSE,
        celebrations |-> 0,
        last |-> Last("new_game", "dealt", NoCard, None, None, Len(deck),
                      IF piles = <<>> THEN <<>> ELSE <<"sceneCleared">>)]

\* new_game(): clear_scene, won = False, setup_piles, build_deck, deal.
\* k is the outcome of random.shuffle, fixed by the state of the random source;
\* sceneCleared tells that clear_scene removed the piles of an earlier game.
new_game(k) ==
    LET deck == build_deck(svg_files, k)
    IN [piles |-> deal_piles(deck),
        face_up |-> deal_face_up(deck),
        current_pile |-> deal_current_pile(deck),
        won |-> FALSE,
        win_text_item |-> FALSE,
        celebrations |-> 0,
        last |-> Last("new_game", "dealt", NoCard, None, None, Len(deck),
                      IF piles = <<>> THEN <<>> ELSE <<"sceneCleared">>)]

\* on_force_win_clicked(): the cards it creates for foundation i (0-based), in
\* rank order, skipping the ranks whose SVG file is absent
force_win_cards(i, n) ==
    SelectSeq([r \in 1..Len(RANKS) |-> DeckSize * n + i * Len(RANKS) + (r - 1)],
              LAMBDA c : Identity(c) \in svg_files)

\* on_force_win_clicked(), the n-th press: the state it leaves
on_force_win_clicked(n) ==
    LET fresh == UNION {Range(force_win_cards(i, n)) : i \in 0..(NumFoundations - 1)}
        filled == [p \in 1..NumPiles |->
                     IF p \in Foundations
                     THEN piles[p] \o force_win_cards(p - FoundationAt(0), n)
                     ELSE piles[p]]
        checked == check_win(filled, won, win_text_item, celebrations)
    IN [piles |-> filled,
        face_up |-> [c \in Cards \cup fresh |-> IF c \in fresh THEN TRUE ELSE face_up[c]],
        current_pile |-> [c \in Cards \cup fresh |->
                            IF c \in fresh
                            THEN FoundationAt(SuitIndex(c))
                            ELSE current_pile[c]],
        won |-> checked.won,
        win_text_item |-> checked.win_text_item,
        celebrations |-> checked.celebrations,
        last |-> Last("force_win", "filled", NoCard, None, None, Cardinality(fresh),
                      checked.events)]

Becomes(r) ==
    /\ piles' = r.piles
    /\ face_up' = r.face_up
    /\ current_pile' = r.current_pile
    /\ won' = r.won
    /\ win_text_item' = r.win_text_item
    /\ celebrations' = r.celebrations
    /\ last' = r.last

\* ---------------------------------------------------------------- actions
Init ==
    /\ svg_files \in AssetSets
    /\ initial_game_started = FALSE
    /\ piles = <<>>
    /\ face_up = <<>>
    /\ current_pile = <<>>
    /\ won = FALSE
    /\ win_text_item = FALSE
    /\ celebrations = 0
    /\ force_wins = 0
    /\ debug_ops = 0
    /\ dragging = NoCard
    /\ drag_group = <<>>
    /\ last = Last("init", "none", NoCard, None, None, 0, <<>>)

\* SolitaireWindow.showEvent (the first game), on_shuffle_clicked, on_play_clicked.
\* clear_scene removes every card item from the scene, a dragged one included:
\* no release reaches a removed item, its drag ends there.
NewGame ==
    /\ \E k \in 0..(NumShuffles - 1) : Becomes(new_game(k))
    /\ initial_game_started' = TRUE
    /\ force_wins' = 0
    /\ debug_ops' = 0
    /\ dragging' = NoCard
    /\ drag_group' = <<>>
    /\ UNCHANGED svg_files

\* Exploration bound: after a force-win press only MaxAfterForceWin further
\* operations of the same game are explored.
AfterForceWin ==
    /\ force_wins = 0 \/ debug_ops < MaxAfterForceWin
    /\ debug_ops' = IF force_wins = 0 THEN debug_ops ELSE debug_ops + 1

\* CardItem.dragReleased -> on_card_drag_released
OnCardDragReleased ==
    /\ initial_game_started
    /\ AfterForceWin
    /\ \E card \in Cards : \E hits \in PointersRead(card) :
            \E r \in {on_card_drag_released(card, hits)} : Becomes(r)
    /\ UNCHANGED <<svg_files, initial_game_started, force_wins, dragging, drag_group>>

\* a mouse press on the stock placeholder -> on_stock_clicked
OnStockClicked ==
    /\ initial_game_started
    /\ AfterForceWin
    /\ Becomes(on_stock_clicked)
    /\ UNCHANGED <<svg_files, initial_game_started, force_wins, dragging, drag_group>>

\* the "Debug: Force Win" button -> on_force_win_clicked
OnForceWinClicked ==
    /\ initial_game_started
    /\ force_wins < MaxForceWins
    /\ Becomes(on_force_win_clicked(force_wins + 1))
    /\ force_wins' = force_wins + 1
    /\ UNCHANGED <<svg_files, initial_game_started, debug_ops, dragging, drag_group>>

Next ==
    \/ NewGame
    \/ OnCardDragReleased
    \/ OnStockClicked

\* the engine operations: new game, drops, stock clicks
Spec == Init /\ [][Next]_vars

NextDebug ==
    \/ Next
    \/ OnForceWinClicked

\* the engine operations and the debug force-win button
SpecDebug == Init /\ [][NextDebug]_vars

\* ---------------------------------------------------------------- the rule alone
\* get_draggable_group_for on tableau piles that play never builds (a broken
\* run above a face-up card, face-down cards above it): the pile and the face
\* states are drawn from bounded sets and mousePressEvent asks for the group.
\* 7C, 5C, 5D, 6H, 8H, 6S
ProbeCards == {6, 4, 17, 31, 33, 44}

InjectiveSeqs(S, n) ==
    UNION {{s \in [1..k -> S] : \A i, j \in 1..k : i # j => s[i] # s[j]} : k \in 0..n}

InitGroup ==
    /\ svg_files = 0..(DeckSize - 1)
    /\ initial_game_started = TRUE
    /\ \E pile \in InjectiveSeqs(ProbeCards, MaxProbeLen) :
         \E ups \in SUBSET Range(pile) :
            /\ piles = [p \in 1..NumPiles |-> IF p = TableauAt(0) THEN pile ELSE <<>>]
            /\ face_up = [c \in Range(pile) |-> c \in ups]
            /\ current_pile = [c \in Range(pile) |-> TableauAt(0)]
    /\ won = FALSE
    /\ win_text_item = FALSE
    /\ celebrations = 0
    /\ force_wins = 0
    /\ debug_ops = 0
    /\ dragging = NoCard
    /\ drag_group = <<>>
    /\ last = Last("init", "none", NoCard, None, None, 0, <<>>)

\* CardItem.mousePressEvent (left button, no drag in progress): the drag starts
\* only with a non-empty group
MousePress ==
    /\ dragging = NoCard
    /\ \E card \in Cards :
         LET group == get_draggable_group_for(card)
         IN /\ last' = Last("mouse_press", IF group = <<>> THEN "refused" ELSE "dragging",
                            card, current_pile[card], None, Len(group), <<>>)
            /\ dragging' = IF group = <<>> THEN NoCard ELSE card
            /\ drag_group' = group
    /\ UNCHANGED <<svg_files, initial_game_started, piles, face_up, current_pile, won,
                   win_text_item, celebrations, force_wins, debug_ops>>

SpecGroup == InitGroup /\ [][MousePress]_vars

\* CardItem.mouseReleaseEvent of the dragged card: _dragging is reset and
\* dragReleased runs on_card_drag_released with the pointer position.  The
\* stale _drag_group is read by nothing until the next press sets it again.
MouseRelease ==
    /\ dragging # NoCard
    /\ \E hits \in PointersRead(dragging) :
         \E r \in {on_card_drag_released(dragging, hits)} : Becomes(r)
    /\ dragging' = NoCard
    /\ drag_group' = <<>>
    /\ UNCHANGED <<svg_files, initial_game_started, force_wins, debug_ops>>

\* _scene_mouse_press_wrapper: a press of any button inside the stock
\* placeholder runs on_stock_clicked, whether or not a card is being dragged.
\* Exploration bound: the waste is grown to MaxWasteHeld cards at most.
StockPressed ==
    /\ piles # <<>> => Len(piles[WastePile]) < MaxWasteHeld
    /\ OnStockClicked

\* The gestures as the window delivers them: a press, then the release of the
\* same card; a press of any mouse button on the stock placeholder and the
\* new-game buttons (keyboard) are served in between as well.
NextGesture ==
    \/ NewGame
    \/ MousePress
    \/ MouseRelease
    \/ StockPressed

SpecGesture == Init /\ [][NextGesture]_vars

\* get_draggable_group_for on a pile of any kind, and on a card with no pile:
\* the probed pile lies in the stock, the waste, a foundation or a tableau column
ProbePiles == {StockPile, WastePile, FoundationAt(0), TableauAt(0)}

LooseChoices(pile) == {{}, {CHOOSE c \in ProbeCards \ Range(pile) : TRUE}}

InitPlaced ==
    /\ svg_files = 0..(DeckSize - 1)
    /\ initial_game_started = TRUE
    /\ \E loc \in ProbePiles : \E pile \in InjectiveSeqs(ProbeCards, MaxProbeLen) :
         \E ups \in SUBSET Range(pile) : \E loose \in LooseChoices(pile) :
            /\ piles = [p \in 1..NumPiles |-> IF p = loc THEN pile ELSE <<>>]
            /\ face_up = [c \in Range(pile) \cup loose |-> c \in ups]
            /\ current_pile = [c \in Range(pile) \cup loose |->
                                 IF c \in loose THEN None ELSE loc]
    /\ won = FALSE
    /\ win_text_item = FALSE
    /\ celebrations = 0
    /\ force_wins = 0
    /\ debug_ops = 0
    /\ dragging = NoCard
    /\ drag_group = <<>>
    /\ last = Last("init", "none", NoCard, None, None, 0, <<>>)

SpecPlaced == InitPlaced /\ [][MousePress]_vars

\* _can_stack_on alone: the destination is empty or topped by any one of the 52
\* cards, every other card waits in the stock, and the rule is asked for every
\* card and every kind of destination
InitStack ==
    /\ svg_files = 0..(DeckSize - 1)
    /\ initial_game_started = TRUE
    /\ \E dest \in {FoundationAt(0), TableauAt(0)} :
         \E tops \in {{}} \cup {{c} : c \in 0..(DeckSize - 1)} :
            /\ piles = [p \in 1..NumPiles |->
                          SelectSeq([i \in 1..DeckSize |-> i - 1],
                                    LAMBDA c : IF c \in tops THEN p = dest
                                               ELSE p = StockPile)]
            /\ face_up = [c \in 0..(DeckSize - 1) |-> c \in tops]
            /\ current_pile = [c \in 0..(DeckSize - 1) |->
                                 IF c \in tops THEN dest ELSE StockPile]
    /\ won = FALSE
    /\ win_text_item = FALSE
    /\ celebrations = 0
    /\ force_wins = 0
    /\ debug_ops = 0
    /\ dragging = NoCard
    /\ drag_group = <<>>
    /\ last = Last("init", "none", NoCard, None, None, 0, <<>>)

\* one call of _can_stack_on(bottom_card, top_pile)
CanStack ==
    /\ \E bottom_card \in Cards : \E top_pile \in ProbePiles :
         last' = Last("can_stack",
                      IF _can_stack_on(bottom_card, top_pile) THEN "legal" ELSE "illegal",
                      bottom_card, current_pile[bottom_card], top_pile, 1, <<>>)
    /\ UNCHANGED <<svg_files, initial_game_started, piles, face_up, current_pile, won,
                   win_text_item, celebrations, force_wins, debug_ops, dragging,
                   drag_group>>

SpecStack == InitStack /\ [][CanStack]_vars

\* on_stock_clicked alone, on every small stock and waste (both empty included):
\* the stock is face-down, the waste face-up, as the handler leaves them, and
\* the probe cards in neither lie face-up in the first tableau column
InitStock ==
    /\ svg_files = 0..(DeckSize - 1)
    /\ initial_game_started = TRUE
    /\ \E stock \in InjectiveSeqs(ProbeCards, MaxProbeLen) :
         \E waste \in InjectiveSeqs(ProbeCards \ Range(stock), MaxProbeLen - Len(stock)) :
            /\ piles = [p \in 1..NumPiles |->
                          IF p = StockPile THEN stock
                          ELSE IF p = WastePile THEN waste
                          ELSE IF p = TableauAt(0)
                          THEN SelectSeq([i \in 1..DeckSize |-> i - 1],
                                         LAMBDA c : c \in ProbeCards
                                                      \ (Range(stock) \cup Range(waste)))
                          ELSE <<>>]
            /\ face_up = [c \in ProbeCards |-> c \notin Range(stock)]
            /\ current_pile = [c \in ProbeCards |->
                                 IF c \in Range(stock) THEN StockPile
                                 ELSE IF c \in Range(waste) THEN WastePile
                                 ELSE TableauAt(0)]
    /\ won = FALSE
    /\ win_text_item = FALSE
    /\ celebrations = 0
    /\ force_wins = 0
    /\ debug_ops = 0
    /\ dragging = NoCard
    /\ drag_group = <<>>
    /\ last = Last("init", "none", NoCard, None, None, 0, <<>>)

SpecStock == InitStock /\ [][OnStockClicked]_vars

\* Pile.remove_cards_from and Pile.top_card alone, on the piles of InitPlaced:
\* asked of every pile for every card, the cards of other piles and the card
\* with no pile included
RemoveCardsFrom ==
    /\ \E p \in ProbePiles : \E card \in Cards :
         LET r == remove_cards_from(piles, current_pile, p, card)
         IN /\ piles' = r.piles
            /\ current_pile' = r.current_pile
            /\ last' = Last("remove_cards_from",
                            IF r.group = <<>> THEN "missing" ELSE "removed",
                            card, p, None, Len(r.group), <<>>)
                       @@ [group |-> r.group, top |-> top_card(r.piles, p)]
    /\ UNCHANGED <<svg_files, initial_game_started, face_up, won, win_text_item,
                   celebrations, force_wins, debug_ops, dragging, drag_group>>

SpecPile == InitPlaced /\ [][RemoveCardsFrom]_vars

\* Drops whose pointer lies in up to MaxHits drop regions at once
OverlapPiles ==
    {StockPile, WastePile, FoundationAt(0), FoundationAt(1), TableauAt(1), TableauAt(3),
     TableauAt(4)}

OverlapHits == {h \in SUBSET OverlapPiles : Cardinality(h) <= MaxHits}

DropOverlapping ==
    /\ initial_game_started
    /\ \E card \in Cards :
         \E hits \in IF get_draggable_group_for(card) = <<>> THEN {{}} ELSE OverlapHits :
            \E r \in {on_card_drag_released(card, hits)} : Becomes(r)
    /\ UNCHANGED <<svg_files, initial_game_started, force_wins, debug_ops, dragging,
                   drag_group>>

NextOverlap ==
    \/ NewGame
    \/ DropOverlapping
    \/ StockPressed

SpecOverlap == Init /\ [][NextOverlap]_vars

\* ---------------------------------------------------------------- claims
AllCardsInPiles == UNION {Range(piles[p]) : p \in DOMAIN piles}

RECURSIVE SumLen(_, _)
SumLen(ps, p) == IF p = 0 THEN 0 ELSE Len(ps[p]) + SumLen(ps, p - 1)

\* all 52 (suit, rank) cards lie in the piles, each once, with a true back-reference
FullDeckInPiles ==
    /\ SumLen(piles, Len(piles)) = DeckSize
    /\ {Identity(c) : c \in AllCardsInPiles} = 0..(DeckSize - 1)
    /\ Cards = AllCardsInPiles
    /\ \A p \in DOMAIN piles : \A j \in DOMAIN piles[p] : current_pile[piles[p][j]] = p

AllFull == piles # <<>> /\ \A f \in Foundations : Len(piles[f]) = FullSuit

Reverted == {"reverted_empty_group", "reverted_no_target", "reverted_cannot_stack"}

\* C1: in every state reached by new_game, drops and stock clicks, each of the
\* 52 (suit, rank) cards is in exactly one pile, exactly once, and its
\* current_pile names that pile.  (Violated: build_deck skips the cards whose
\* SVG file is absent.)
C1_EachCardInOnePile == initial_game_started => FullDeckInPiles

\* C1, the part the code keeps: the cards that were built are never lost or
\* duplicated by a drop or a stock click, and the back-references stay true.
C1_BuiltCardsStayPlaced ==
    initial_game_started =>
        /\ SumLen(piles, Len(piles)) = Cardinality(Cards)
        /\ Cards = AllCardsInPiles
        /\ \A p \in DOMAIN piles : \A j \in DOMAIN piles[p] : current_pile[piles[p][j]] = p

C3_DealShape ==
    last.op = "new_game" =>
        /\ FullDeckInPiles
        /\ \A i \in 0..(NumTableau - 1) :
              /\ Len(piles[TableauAt(i)]) = i + 1
              /\ \A j \in 1..(i + 1) : face_up[piles[TableauAt(i)][j]] <=> (j = i + 1)
        /\ Len(piles[StockPile]) = DeckSize - DealtToTableau
        /\ \A j \in DOMAIN piles[StockPile] : ~face_up[piles[StockPile][j]]
        /\ piles[WastePile] = <<>>
        /\ \A f \in Foundations : piles[f] = <<>>

\* C4: a drop that is reverted leaves every pile, every face state, every
\* membership and won as they were.
C4_RevertChangesNothing ==
    [][(last'.op = "drag_released" /\ last'.outcome \in Reverted)
         => /\ piles' = piles
            /\ face_up' = face_up
            /\ current_pile' = current_pile
            /\ won' = won]_vars

C4_Witness == last.op = "drag_released" /\ last.outcome = "reverted_cannot_stack"

\* C5: a drop is accepted exactly when the group is non-empty, a destination is
\* found and _can_stack_on(group[0], destination) holds; then the source loses
\* the suffix that starts at the card, the destination gains it at its tail in
\* the same order, and no other pile changes.
C5_AcceptedExactlyWhenLegal ==
    \A card \in Cards : \A hits \in HitSets :
        LET r == on_card_drag_released(card, hits)
            src == current_pile[card]
            group == get_draggable_group_for(card)
            target == _find_target_pile(hits)
            legal == group # <<>> /\ target # None /\ _can_stack_on(group[1], target)
            at == CHOOSE i \in DOMAIN piles[src] : piles[src][i] = card
            suffix == SubSeq(piles[src], at, Len(piles[src]))
        IN /\ (r.last.outcome = "accepted") <=> legal
           /\ legal =>
                /\ group = suffix
                /\ r.piles[src] = SubSeq(piles[src], 1, at - 1)
                /\ r.piles[target] = piles[target] \o suffix
                /\ \A p \in DOMAIN piles \ {src, target} : r.piles[p] = piles[p]
                /\ \A c \in Range(suffix) : r.current_pile[c] = target

C5_Witness ==
    /\ last.op = "drag_released" /\ last.outcome = "accepted"
    /\ last.n >= 2
    /\ piles[last.src] # <<>>

\* C6: within one game won never goes back to false, whatever is moved off the
\* foundations afterwards; only new_game resets it.
C6_WonMonotonic == [][(won /\ last'.op # "new_game") => won']_vars

C6_Witness ==
    /\ won
    /\ last.op = "drag_released" /\ last.outcome = "accepted"
    /\ \E f \in Foundations : Len(piles[f]) < FullSuit

\* C7: won becomes true only when all 4 foundations hold exactly 13 cards, and
\* after every accepted drop and every mutating stock click, all 4 foundations
\* at 13 cards implies won.
C7_WonIffChecked ==
    [][/\ (~won /\ won') => AllFull'
       /\ (last'.outcome \in {"accepted", "draw", "recycle"} /\ AllFull') => won']_vars

C7_Witness ==
    /\ last.op = "drag_released" /\ last.outcome = "accepted"
    /\ last.events = <<"cardsMoved", "winAchieved">>
    /\ won /\ AllFull

\* C8: show_celebration runs at most once per game: at the check that sets won,
\* and at no later check.
C8_OneCelebration ==
    /\ celebrations = (IF won THEN 1 ELSE 0)
    /\ win_text_item <=> won

C8_Witness ==
    /\ won /\ AllFull /\ celebrations = 1
    /\ last.op = "stock_clicked" /\ last.outcome = "draw"

\* C9: after an accepted drop from a tableau pile that is still non-empty the
\* pile's new top card is face-up, and a drop changes the face of no card but
\* that new top.
C9_SourceTopRevealed ==
    [][last'.op = "drag_released" =>
         LET src == last'.src
             accepted == last'.outcome = "accepted"
         IN /\ (accepted /\ Kind(src) = "tableau" /\ piles'[src] # <<>>)
                  => face_up'[top_card(piles', src)]
            /\ \A c \in Cards :
                  face_up'[c] # face_up[c]
                    => (accepted /\ Kind(src) = "tableau" /\ c = top_card(piles', src))]_vars

C9_Witness ==
    /\ last.op = "drag_released" /\ last.outcome = "accepted"
    /\ Kind(last.src) = "tableau"
    /\ piles[last.src] # <<>>
    /\ last.events = <<"cardsMoved", "tableauCardFlipped">>

\* C10: for a card of a tableau pile the group is the whole suffix from the card
\* to the top when the card is face-up and every adjacent pair of the suffix
\* alternates colour and descends by one rank, and empty otherwise (never a
\* shorter prefix).
ValidPair(below, above) ==
    /\ Color(above) # Color(below)
    /\ RanksIndex(above) = RanksIndex(below) - 1

C10_TableauGroup ==
    \A card \in Cards :
        Kind(current_pile[card]) = "tableau" /\ current_pile[card] # None =>
            LET pile == piles[current_pile[card]]
                at == CHOOSE i \in DOMAIN pile : pile[i] = card
                whole == /\ face_up[card]
                         /\ \A i \in at..(Len(pile) - 1) : ValidPair(pile[i], pile[i + 1])
            IN get_draggable_group_for(card) =
                   IF whole THEN SubSeq(pile, at, Len(pile)) ELSE <<>>

\* a face-up card whose first pair is valid and whose run breaks higher up
C10_Witness ==
    /\ last.op = "mouse_press" /\ last.n = 0
    /\ face_up[last.card]
    /\ LET pile == piles[last.src]
           at == CHOOSE i \in DOMAIN pile : pile[i] = last.card
       IN /\ at + 2 <= Len(pile)
          /\ ValidPair(pile[at], pile[at + 1])
          /\ ~ValidPair(pile[at + 1], pile[at + 2])

\* C11: for a card of the waste or of a foundation the group is [card] exactly
\* when the card is the pile's top card and empty otherwise; for a card of the
\* stock and for a card with no pile it is always empty.
C11_TopOnlyGroup ==
    \A card \in Cards :
        LET p == current_pile[card]
            g == get_draggable_group_for(card)
        IN /\ (p = None \/ p = StockPile) => g = <<>>
           /\ (p = WastePile \/ p \in Foundations) =>
                 /\ g \in {<<>>, <<card>>}
                 /\ (g = <<card>>) <=> (card = piles[p][Len(piles[p])])

\* a face-up card under the top of a foundation was pressed and refused
C11_Witness ==
    /\ last.op = "mouse_press" /\ last.outcome = "refused"
    /\ last.src \in Foundations
    /\ face_up[last.card]
    /\ Len(piles[last.src]) >= 2
    /\ \E c \in Cards : current_pile[c] = None

Red(c) == Suit(c) \in {"diamonds", "hearts"}

\* C12: on an empty tableau pile _can_stack_on is true exactly for kings; on a
\* non-empty one exactly when the moved card's colour differs from the top's
\* and its rank index is one less than the top's.
C12_TableauRule ==
    \A bottom_card \in Cards : \A t \in Tableau :
        _can_stack_on(bottom_card, t) <=>
            IF piles[t] = <<>>
            THEN Rank(bottom_card) = "king"
            ELSE LET top == piles[t][Len(piles[t])]
                 IN /\ Red(bottom_card) # Red(top)
                    /\ RanksIndex(bottom_card) + 1 = RanksIndex(top)

\* the rule was asked for a red 7 on a black 8 and answered yes
C12_Witness ==
    /\ last.op = "can_stack" /\ last.outcome = "legal"
    /\ last.dst \in Tableau
    /\ piles[last.dst] # <<>>
    /\ LET top == piles[last.dst][Len(piles[last.dst])]
       IN /\ Rank(top) = "8" /\ ~Red(top)
          /\ Rank(last.card) = "7" /\ Red(last.card)

\* C13: on an empty foundation _can_stack_on is true exactly for aces; on a
\* non-empty one exactly when the moved card has the top's suit and a rank
\* index one greater; nothing stacks on a king-topped foundation.
C13_FoundationRule ==
    \A bottom_card \in Cards : \A f \in Foundations :
        /\ _can_stack_on(bottom_card, f) <=>
              IF piles[f] = <<>>
              THEN Rank(bottom_card) = "ace"
              ELSE LET top == piles[f][Len(piles[f])]
                   IN /\ Suit(bottom_card) = Suit(top)
                      /\ RanksIndex(bottom_card) = RanksIndex(top) + 1
        /\ (piles[f] # <<>> /\ Rank(piles[f][Len(piles[f])]) = "king")
              => ~_can_stack_on(bottom_card, f)

\* the rule was asked for the ace of the suit on a king-topped foundation and
\* answered no
C13_Witness ==
    /\ last.op = "can_stack" /\ last.outcome = "illegal"
    /\ last.dst \in Foundations
    /\ piles[last.dst] # <<>>
    /\ LET top == piles[last.dst][Len(piles[last.dst])]
       IN /\ Rank(top) = "king"
          /\ Rank(last.card) = "ace" /\ Suit(last.card) = Suit(top)

\* C14: stock and waste are never drop destinations: _can_stack_on is false for
\* both, _find_target_pile never answers the stock, no drop adds a card to the
\* stock or the waste; the waste grows only by a stock draw and the stock only
\* by the deal or a recycle.
C14_StockWasteNeverDestinations ==
    /\ [](/\ \A c \in Cards :
               ~_can_stack_on(c, StockPile) /\ ~_can_stack_on(c, WastePile)
          /\ \A hits \in HitSets : _find_target_pile(hits) # StockPile)
    /\ [][piles # <<>> =>
             /\ last'.op = "drag_released" =>
                   /\ Len(piles'[StockPile]) = Len(piles[StockPile])
                   /\ Len(piles'[WastePile]) <= Len(piles[WastePile])
             /\ Len(piles'[WastePile]) > Len(piles[WastePile]) =>
                   last'.op = "stock_clicked" /\ last'.outcome = "draw"
             /\ Len(piles'[StockPile]) > Len(piles[StockPile]) =>
                   \/ last'.op = "new_game"
                   \/ last'.op = "stock_clicked" /\ last'.outcome = "recycle"]_vars

\* the state is the one a drop of a draggable group on the non-empty waste
\* leaves: the waste was found as the target and refused
C14_Witness ==
    /\ last.op = "drag_released" /\ last.outcome = "reverted_cannot_stack"
    /\ piles[WastePile] # <<>>
    /\ \E card \in Cards :
          /\ get_draggable_group_for(card) # <<>>
          /\ current_pile[card] \in Tableau
          /\ _find_target_pile({WastePile}) = WastePile
          /\ on_card_drag_released(card, {WastePile}).last = last

\* C15: a stock click on a non-empty stock removes the stock's last card, turns
\* it face-up and appends it to the waste; the rest of the stock, the earlier
\* waste cards, the tableau and the foundations stay as they are.
C15_Draw ==
    [][(last'.op = "stock_clicked" /\ piles # <<>> /\ piles[StockPile] # <<>>) =>
         LET n == Len(piles[StockPile])
             drawn == piles[StockPile][n]
         IN /\ piles'[StockPile] = SubSeq(piles[StockPile], 1, n - 1)
            /\ piles'[WastePile] = Append(piles[WastePile], drawn)
            /\ face_up'[drawn]
            /\ current_pile'[drawn] = WastePile
            /\ \A c \in Cards \ {drawn} :
                  face_up'[c] = face_up[c] /\ current_pile'[c] = current_pile[c]
            /\ \A p \in Foundations \cup Tableau : piles'[p] = piles[p]]_vars

C15_Witness ==
    /\ last.op = "stock_clicked" /\ last.outcome = "draw"
    /\ Len(piles[WastePile]) >= 2
    /\ piles[StockPile] # <<>>
    /\ piles[WastePile][Len(piles[WastePile])] = last.card
    /\ face_up[last.card]

\* C16: a stock click on an empty stock and a non-empty waste makes the stock
\* the waste in reversed order, every card face-down and with the stock as its
\* pile, and empties the waste.
C16_Recycle ==
    [][(/\ last'.op = "stock_clicked"
        /\ piles # <<>>
        /\ piles[StockPile] = <<>>
        /\ piles[WastePile] # <<>>) =>
         LET w == piles[WastePile]
         IN /\ piles'[StockPile] = [i \in 1..Len(w) |-> w[Len(w) + 1 - i]]
            /\ piles'[WastePile] = <<>>
            /\ \A c \in Range(w) : ~face_up'[c] /\ current_pile'[c] = StockPile
            /\ \A c \in Cards \ Range(w) :
                  face_up'[c] = face_up[c] /\ current_pile'[c] = current_pile[c]
            /\ \A p \in Foundations \cup Tableau : piles'[p] = piles[p]]_vars

C16_Witness ==
    /\ last.op = "stock_clicked" /\ last.outcome = "recycle"
    /\ Len(piles[StockPile]) >= 3
    /\ piles[WastePile] = <<>>
    /\ last.n = Len(piles[StockPile])

\* C17: a stock click with the stock and the waste both empty changes no pile,
\* no face state, no membership and not won, and runs no win check.
C17_EmptyClickNoOp ==
    [][(/\ last'.op = "stock_clicked"
        /\ piles # <<>>
        /\ piles[StockPile] = <<>>
        /\ piles[WastePile] = <<>>) =>
         /\ piles' = piles
         /\ face_up' = face_up
         /\ current_pile' = current_pile
         /\ won' = won
         /\ win_text_item' = win_text_item
         /\ celebrations' = celebrations
         /\ last'.outcome = "noop"
         /\ last'.events = <<>>]_vars

C17_Witness ==
    /\ last.op = "stock_clicked" /\ last.outcome = "noop"
    /\ piles[StockPile] = <<>>
    /\ piles[WastePile] = <<>>
    /\ Cards # {}

PileKinds(kind) == {p \in DOMAIN piles : Kind(p) = kind}

\* C18: new_game, called in any reachable state, leaves won false, 7 tableau,
\* 4 foundation, 1 stock and 1 waste piles that hold the freshly dealt 52 cards
\* and nothing of the earlier game.  (Violated: build_deck skips the cards
\* whose SVG file is absent.)
C18_NewGameReplacesSession ==
    last.op = "new_game" =>
        /\ ~won
        /\ Cardinality(PileKinds("tableau")) = 7
        /\ Cardinality(PileKinds("foundation")) = 4
        /\ Cardinality(PileKinds("stock")) = 1
        /\ Cardinality(PileKinds("waste")) = 1
        /\ FullDeckInPiles
        /\ Cards = 0..(DeckSize - 1)

\* C18, the part the code keeps: after new_game won is false, no celebration
\* is shown, the 13 piles hold exactly the cards build_deck has just built,
\* none of them a card the debug button added to the earlier game.
C18_BuiltSessionIsFresh ==
    last.op = "new_game" =>
        /\ ~won /\ ~win_text_item /\ celebrations = 0
        /\ Cardinality(PileKinds("tableau")) = 7
        /\ Cardinality(PileKinds("foundation")) = 4
        /\ Cardinality(PileKinds("stock")) = 1
        /\ Cardinality(PileKinds("waste")) = 1
        /\ Cards = svg_files
        /\ Cards = AllCardsInPiles
        /\ SumLen(piles, Len(piles)) = Cardinality(Cards)

\* C19: the piles after new_game are those the full set of card art gives,
\* whichever SVG files exist.  (Violated: build_deck skips the cards whose SVG
\* file is absent.)
C19_AssetsDoNotMatter ==
    last.op = "new_game" =>
        \E k \in 0..(NumShuffles - 1) :
            LET deck == Order(k)
            IN /\ Len(piles[StockPile]) = DeckSize - DealtToTableau
               /\ \A i \in 0..(NumTableau - 1) :
                     piles[TableauAt(i)] = SubSeq(deck, ColStart(i) + 1, ColStart(i + 1))
               /\ Range(piles[StockPile]) = {deck[j] : j \in (DealtToTableau + 1)..DeckSize}

C21_GestureStateMachine ==
    [][/\ (dragging = NoCard /\ dragging' # NoCard) =>
              /\ last'.op = "mouse_press" /\ last'.outcome = "dragging"
              /\ draggable_group(piles, face_up, current_pile, dragging') # <<>>
              /\ drag_group' = draggable_group(piles, face_up, current_pile, dragging')
       /\ (last'.op = "mouse_press" /\ last'.outcome = "refused") =>
              /\ dragging' = NoCard
              /\ draggable_group(piles, face_up, current_pile, last'.card) = <<>>
       /\ last'.op = "drag_released" =>
              /\ dragging # NoCard /\ dragging' = NoCard
              /\ last'.outcome \in {"accepted"} \cup Reverted
              /\ last'.outcome = "accepted" => piles' # piles
              /\ last'.outcome \in Reverted =>
                    piles' = piles /\ face_up' = face_up
                    /\ current_pile' = current_pile]_vars

\* a started drag whose group had become empty by the time of the release was
\* resolved as reverted, and the session is idle again
C21_Witness ==
    /\ last.op = "drag_released" /\ last.outcome = "reverted_empty_group"
    /\ dragging = NoCard
    /\ piles[WastePile] # <<>>

\* C22: remove_cards_from(card) for a card of the pile returns the suffix from
\* that card in order, clears the membership of the returned cards and keeps
\* the prefix below; for a card not in the pile it returns the empty sequence
\* and changes nothing; top_card of an empty pile is None.
C22_RemoveCardsFrom ==
    [][last'.op = "remove_cards_from" =>
         LET p == last'.src
             card == last'.card
             old == piles[p]
         IN /\ IF \E i \in 1..Len(old) : old[i] = card
               THEN \E i \in 1..Len(old) :
                      /\ old[i] = card
                      /\ last'.group = [j \in 1..(Len(old) - i + 1) |-> old[i + j - 1]]
                      /\ piles'[p] = [j \in 1..(i - 1) |-> old[j]]
                      /\ \A c \in Cards :
                            current_pile'[c] =
                               IF \E j \in i..Len(old) : old[j] = c THEN None
                               ELSE current_pile[c]
               ELSE /\ last'.group = <<>>
                    /\ piles'[p] = old
                    /\ current_pile' = current_pile
            /\ \A q \in DOMAIN piles : q # p => piles'[q] = piles[q]
            /\ last'.top = IF piles'[p] = <<>> THEN NoCard
                           ELSE piles'[p][Len(piles'[p])]]_vars

\* two or more cards were removed from the middle of a pile and a prefix stayed
C22_Witness ==
    /\ last.op = "remove_cards_from" /\ last.outcome = "removed"
    /\ Len(last.group) >= 2
    /\ piles[last.src] # <<>>
    /\ last.top = piles[last.src][Len(piles[last.src])]
    /\ \A c \in Range(last.group) : current_pile[c] = None

\* C23: between the press that starts a drag and its release no other
\* operation takes effect, and the group the release handles is the group of
\* the press.  (Violated: a press on the stock placeholder and the new-game
\* buttons are served while a card is held.)
C23_ExclusiveGroup ==
    [][dragging # NoCard =>
         /\ last'.op = "drag_released"
         /\ get_draggable_group_for(dragging) = drag_group
         /\ last'.outcome = "accepted" => last'.n = Len(drag_group)]_vars

C25_RevealBeforeWinCheck ==
    (last.op = "drag_released" /\ last.outcome = "accepted"
       /\ Kind(last.src) = "tableau") =>
        /\ \E k \in DOMAIN last.calls : last.calls[k] = "check_win"
        /\ \A i, k \in DOMAIN last.calls :
              (last.calls[i] = "set_face_up" /\ last.calls[k] = "check_win") => i < k
        /\ \A i, k \in DOMAIN last.events :
              (last.events[i] = "tableauCardFlipped" /\ last.events[k] = "winAchieved")
                 => i < k

\* C26: with every asset present, a press of the force-win button in a game
\* that is not won leaves every foundation a full ace..king run of one suit
\* and sets won.  (Violated: the thirteen cards are appended to whatever the
\* foundation holds.)
C26_ForceWinWins ==
    [][(last'.op = "force_win" /\ ~won /\ svg_files = 0..(DeckSize - 1)) =>
         /\ won'
         /\ \A f \in Foundations :
               /\ Len(piles'[f]) = FullSuit
               /\ \A j \in DOMAIN piles'[f] :
                     /\ Suit(piles'[f][j]) = Suit(piles'[f][1])
                     /\ RanksIndex(piles'[f][j]) = j - 1]_vars

C28_ValidRuns ==
    piles # <<>> =>
        \A t \in Tableau : \A j \in DOMAIN piles[t] :
            face_up[piles[t][j]] =>
                /\ j < Len(piles[t]) =>
                      /\ face_up[piles[t][j + 1]]
                      /\ ValidPair(piles[t][j], piles[t][j + 1])
                /\ get_draggable_group_for(piles[t][j]) =
                      [i \in 1..(Len(piles[t]) - j + 1) |-> piles[t][j + i - 1]]

\* a tableau pile shows a run of three or more face-up cards over face-down cards
C28_Witness ==
    /\ piles # <<>>
    /\ last.op = "drag_released" /\ last.outcome = "accepted"
    /\ \E t \in Tableau :
          /\ last.dst = t
          /\ Len(piles[t]) >= 4
          /\ ~face_up[piles[t][1]]
          /\ Len(get_draggable_group_for(piles[t][Len(piles[t]) - 2])) = 3

\* C29: a drop of any draggable group on the pile it sits in is reverted and
\* leaves every pile as it is.
C29_SelfDropReverts ==
    \A card \in Cards :
        get_draggable_group_for(card) # <<>> =>
            LET r == on_card_drag_released(card, {current_pile[card]})
            IN /\ r.last.outcome \in Reverted
               /\ r.piles = piles
               /\ r.current_pile = current_pile
               /\ r.face_up = face_up

\* a group of two or more cards was dropped on its own tableau pile and reverted
C29_Witness ==
    /\ last.op = "drag_released" /\ last.outcome = "reverted_cannot_stack"
    /\ \E card \in Cards :
          /\ Len(get_draggable_group_for(card)) >= 2
          /\ Kind(current_pile[card]) = "tableau"
          /\ _find_target_pile({current_pile[card]}) = current_pile[card]
          /\ on_card_drag_released(card, {current_pile[card]}).last = last
    /\ \E f \in Foundations : piles[f] # <<>>

\* C30: from an empty waste and a stock S of one or more cards, stock clicks
\* alone bring back, at every recycle, the stock S in the same order, all
\* face-down, and the empty waste.
C30_StockRoundTrip ==
    \A S \in InjectiveSeqs(ProbeCards, MaxProbeLen) \ {<<>>} :
        []((piles[StockPile] = S /\ piles[WastePile] = <<>>) =>
             []((last.op = "stock_clicked" /\ last.outcome = "recycle") =>
                   /\ piles[StockPile] = S
                   /\ piles[WastePile] = <<>>
                   /\ \A j \in DOMAIN S : ~face_up[S[j]]))

\* a whole pass of MaxProbeLen draws was recycled: the stock is back, face-down
C30_Witness ==
    /\ last.op = "stock_clicked" /\ last.outcome = "recycle"
    /\ Len(piles[StockPile]) = MaxProbeLen
    /\ piles[WastePile] = <<>>
    /\ \A j \in DOMAIN piles[StockPile] :
          ~face_up[piles[StockPile][j]] /\ current_pile[piles[StockPile][j]] = StockPile

====
